---- MODULE Spec2Model ----
(***************************************************************************)
(* Cycle-accurate model of the HyperRAM controller of src/hyperbus.py.     *)
(*                                                                         *)
(* One state is one sys_clk cycle: the registers of the controller as they *)
(* read during that cycle, together with the Wishbone inputs presented in  *)
(* that cycle.  One Tick is one rising clock edge: every synchronous       *)
(* statement of the module is evaluated on the values of the current cycle *)
(* and, as in migen, the last assignment to a signal wins.                 *)
(*                                                                         *)
(* Signals are 0/1 integers.  The 48-bit shift register and the 32-bit     *)
(* write word are kept as byte sequences, least significant byte first     *)
(* (sr[1] is bits 7:0, sr[6] is bits 47:40), so that no value exceeds the  *)
(* integer range of the model checker.                                     *)
(***************************************************************************)
EXTENDS Integers, Sequences, FiniteSets, TLC

VARIABLES
    dw,          \* data width of the pads, fixed at construction (8 or 16)
    latency,     \* latency argument of the constructor
    clk,         \* HyperRAM clock register
    clk_phase,   \* 2-bit phase counter
    cs,          \* chip select (active high, pads.cs_n[0] = ~cs)
    ca_active,   \* command-address phase flag
    sr,          \* 48-bit shift register, 6 bytes
    dqi,         \* registered sample of dq.i
    counter,     \* the counter of migen's timeline()
    dq_oe,       \* dq.oe
    rwds_oe,     \* rwds.oe
    rwds_out,    \* rwds_out, 2 bits
    ack,         \* bus.ack
    cyc, stb,    \* bus.cyc, bus.stb in the current cycle
    we,          \* bus.we
    adr,         \* bus.adr (30 bits)
    dat_w,       \* bus.dat_w, 4 bytes
    sel,         \* bus.sel (4 bits)
    elapsed,     \* observer: cycles since the cycle that started the timeline
    held,        \* observer: cyc & stb high in every cycle since that start
    acks,        \* observer: cycles with ack high seen since that start
    rd,          \* observer: that start took a read request (we low)
    waited,      \* observer: idle cycles just before this one with cyc & stb high
    twin,        \* a second instance on the same bus (SpecTwin only)
    samples      \* observer: the latest odd-phase samples of dq.i, newest first
                 \* (SpecDevice only)

vars == <<dw, latency, clk, clk_phase, cs, ca_active, sr, dqi, counter,
          dq_oe, rwds_oe, rwds_out, ack, cyc, stb, we, adr, dat_w, sel,
          elapsed, held, acks, rd, waited, twin, samples>>

regs == <<clk, clk_phase, cs, ca_active, sr, dqi, counter,
          dq_oe, rwds_oe, rwds_out, ack>>

-----------------------------------------------------------------------------
(* Bit helpers *)

Pow2(n) == 2 ^ n

\* bit i of the non-negative integer x
Bit(x, i) == (x \div Pow2(i)) % 2

Not(b) == 1 - b

Min(a, b) == IF a < b THEN a ELSE b

-----------------------------------------------------------------------------
(* Construction parameters *)

DefaultLatency == 6

\* width of bus.adr of wishbone.Interface()
AdrBits == 30

Widths == {8, 16}

\* widths of the data pads a constructor may be handed
PadWidths == {4, 8, 16, 32}

\* faulty variant: the width is not checked
supported_any(w) == TRUE

\* assert dw in [8, 16]: the constructor goes on for these widths only
supported(w) == w \in {8, 16}

\* latencies the controller is built with
MaxLatency == 2

Latencies == (1 .. MaxLatency) \cup {DefaultLatency}

-----------------------------------------------------------------------------
(* Data path: _setup_data_path *)

\* sr.eq(Cat(dqi[:8], sr[:-8])): shift left by one byte, dqi[7:0] enters
ShiftCA(r, d) == <<d % 256>> \o SubSeq(r, 1, 5)

\* sr.eq(Cat(dqi, sr[:-dw])): shift left by dw bits, dqi enters
ShiftData(r, d, w) ==
    IF w = 8 THEN <<d % 256>> \o SubSeq(r, 1, 5)
    ELSE <<d % 256, (d \div 256) % 256>> \o SubSeq(r, 1, 4)

\* faulty variant: the register shifts on the sampling phases 1 and 3
ShiftStatement_odd(r, d, w, phase, caact) ==
    IF phase = 1 \/ phase = 3
    THEN IF caact = 1 THEN ShiftCA(r, d) ELSE ShiftData(r, d, w)
    ELSE r

\* faulty variant: the register shifts by the data width in every phase of
\* the transaction
ShiftStatement_wide(r, d, w, phase, caact) ==
    IF phase = 0 \/ phase = 2
    THEN ShiftData(r, d, w)
    ELSE r

\* the synchronous shift statement, executed on phases 0 and 2
ShiftStatement(r, d, w, phase, caact) ==
    IF phase = 0 \/ phase = 2
    THEN IF caact = 1 THEN ShiftCA(r, d) ELSE ShiftData(r, d, w)
    ELSE r

\* faulty variant: the read data is taken from the top of the register
dat_r_top == SubSeq(sr, 3, 6)

\* bus.dat_r.eq(sr): the low 32 bits of the register
dat_r == SubSeq(sr, 1, 4)

\* dq.o: sr[-8:] during the CA phase, sr[-dw:] otherwise
dq_o ==
    IF ca_active = 1 THEN sr[6]
    ELSE IF dw = 8 THEN sr[6] ELSE sr[5] + 256 * sr[6]

\* rwds.o.eq(rwds_out): the mask pins, as many as the data bytes
rwds_o == IF dw = 8 THEN rwds_out % 2 ELSE rwds_out

-----------------------------------------------------------------------------
(* Control pads: _setup_control_signals *)

\* the pads carry one chip-select line or two
CsLines == {1, 2}

\* faulty variant: every line follows the chip select
cs_n_shared(n, i) == Not(cs)

\* line i of a chip-select pad of n lines: pads.cs_n[0].eq(~cs), and
\* pads.cs_n[1].eq(1) if there are two lines; a line without a driver reads 0
cs_n(n, i) ==
    IF i = 0 THEN Not(cs)
    ELSE IF n = 2 THEN 1
    ELSE 0

\* pads.clk.eq(clk)
pads_clk == clk

-----------------------------------------------------------------------------
(* Command-address word: _setup_command_address *)

CA_RW_BIT == 47

CA_ADDRESS_SPACE == 46

CA_BURST_TYPE == 45

\* bit i of bus.adr; a slice that ends above the signal is zero-extended
AdrBit(a, i) == IF i < AdrBits THEN Bit(a, i) ELSE 0

\* faulty variant: the 8-bit layout is used for both widths
CommandAddress_bytes(a, w_e, w) ==
    [i \in 0 .. 47 |->
        IF i = 47 THEN Not(w_e)
        ELSE IF i = 45 THEN 1
        ELSE IF i >= 16 /\ i < 45 THEN AdrBit(a, (i - 16) + 2)
        ELSE IF i >= 1 /\ i < 3 THEN AdrBit(a, i - 1)
        ELSE 0]

\* the 48-bit word as a function from bit index to bit; bits without a
\* driver (46 and 15:3) read 0
CommandAddress(a, w_e, w) ==
    [i \in 0 .. 47 |->
        IF i = CA_RW_BIT THEN Not(w_e)
        ELSE IF i = CA_BURST_TYPE THEN 1
        ELSE IF i >= 16 /\ i < 45
             THEN (IF w = 8 THEN AdrBit(a, (i - 16) + 2) ELSE AdrBit(a, (i - 16) + 3))
        ELSE IF i >= 1 /\ i < 3
             THEN (IF w = 8 THEN AdrBit(a, i - 1) ELSE AdrBit(a, (i - 1) + 1))
        ELSE IF i = 0
             THEN (IF w = 8 THEN 0 ELSE AdrBit(a, 0))
        ELSE 0]

\* the word of the current cycle (combinational)
ca == CommandAddress(adr, we, dw)

\* byte k (0 = least significant) of a 48-bit word given bit by bit
ByteOf(word, k) ==
    word[8*k] + 2 * word[8*k + 1] + 4 * word[8*k + 2] + 8 * word[8*k + 3]
    + 16 * word[8*k + 4] + 32 * word[8*k + 5] + 64 * word[8*k + 6]
    + 128 * word[8*k + 7]

\* sr.eq(ca)
LoadCA(word) == [k \in 1 .. 6 |-> ByteOf(word, k - 1)]

\* faulty variant: the write word is loaded least significant byte on top
LoadData_reversed(d) == <<0, 0, d[4], d[3], d[2], d[1]>>

\* faulty variant: the write word is loaded into the low 32 bits
LoadData_low(d) == d \o <<0, 0>>

\* sr[:16].eq(0), sr[16:].eq(bus.dat_w)
LoadData(d) == <<0, 0>> \o d

-----------------------------------------------------------------------------
(* Sequencer: _build_access_sequence and _setup_sequencer *)

\* faulty variant: the latency count without the -4 correction
lat_cycles_uncorrected(lat) == lat * 8

\* lat_cycles = (latency * 8) - 4
lat_cycles(lat) == (lat * 8) - 4

\* faulty variant: the 16-bit data phase takes one device clock per word
build_access_sequence_slow_words(w, latency_cycles) ==
    <<[dt |-> 3, act |-> "start"],
      [dt |-> 12, act |-> "ca"],
      [dt |-> latency_cycles, act |-> "latency"]>>
    \o (IF w = 8
        THEN <<[dt |-> 2, act |-> "byte0"], [dt |-> 2, act |-> "byte1"],
               [dt |-> 2, act |-> "byte2"], [dt |-> 2, act |-> "byte3"]>>
        ELSE <<[dt |-> 4, act |-> "word0"], [dt |-> 4, act |-> "word1"]>>)
    \o <<[dt |-> 2, act |-> "end"],
         [dt |-> 1, act |-> "ack"],
         [dt |-> 1, act |-> "ackoff"],
         [dt |-> 0, act |-> "stop"]>>

\* faulty variant: the timeline ends with the step that clears ack
build_access_sequence_no_tail(w, latency_cycles) ==
    <<[dt |-> 3, act |-> "start"],
      [dt |-> 12, act |-> "ca"],
      [dt |-> latency_cycles, act |-> "latency"]>>
    \o (IF w = 8
        THEN <<[dt |-> 2, act |-> "byte0"], [dt |-> 2, act |-> "byte1"],
               [dt |-> 2, act |-> "byte2"], [dt |-> 2, act |-> "byte3"]>>
        ELSE <<[dt |-> 2, act |-> "word0"], [dt |-> 2, act |-> "word1"]>>)
    \o <<[dt |-> 2, act |-> "end"],
         [dt |-> 1, act |-> "ack"],
         [dt |-> 0, act |-> "ackoff"]>>

\* faulty variant: the teardown comes 1 cycle after the last data step
build_access_sequence_early_end(w, latency_cycles) ==
    <<[dt |-> 3, act |-> "start"],
      [dt |-> 12, act |-> "ca"],
      [dt |-> latency_cycles, act |-> "latency"]>>
    \o (IF w = 8
        THEN <<[dt |-> 2, act |-> "byte0"], [dt |-> 2, act |-> "byte1"],
               [dt |-> 2, act |-> "byte2"], [dt |-> 1, act |-> "byte3"]>>
        ELSE <<[dt |-> 2, act |-> "word0"], [dt |-> 1, act |-> "word1"]>>)
    \o <<[dt |-> 2, act |-> "end"],
         [dt |-> 1, act |-> "ack"],
         [dt |-> 1, act |-> "ackoff"],
         [dt |-> 0, act |-> "stop"]>>

\* faulty variant: the idle gap before the command-address phase is 2 cycles
build_access_sequence_short_gap(w, latency_cycles) ==
    <<[dt |-> 2, act |-> "start"],
      [dt |-> 12, act |-> "ca"],
      [dt |-> latency_cycles, act |-> "latency"]>>
    \o (IF w = 8
        THEN <<[dt |-> 2, act |-> "byte0"], [dt |-> 2, act |-> "byte1"],
               [dt |-> 2, act |-> "byte2"], [dt |-> 2, act |-> "byte3"]>>
        ELSE <<[dt |-> 2, act |-> "word0"], [dt |-> 2, act |-> "word1"]>>)
    \o <<[dt |-> 2, act |-> "end"],
         [dt |-> 1, act |-> "ack"],
         [dt |-> 1, act |-> "ackoff"],
         [dt |-> 0, act |-> "stop"]>>

\* faulty variant: the command-address phase lasts 24 cycles
build_access_sequence_long_ca(w, latency_cycles) ==
    <<[dt |-> 3, act |-> "start"],
      [dt |-> 24, act |-> "ca"],
      [dt |-> latency_cycles, act |-> "latency"]>>
    \o (IF w = 8
        THEN <<[dt |-> 2, act |-> "byte0"], [dt |-> 2, act |-> "byte1"],
               [dt |-> 2, act |-> "byte2"], [dt |-> 2, act |-> "byte3"]>>
        ELSE <<[dt |-> 2, act |-> "word0"], [dt |-> 2, act |-> "word1"]>>)
    \o <<[dt |-> 2, act |-> "end"],
         [dt |-> 1, act |-> "ack"],
         [dt |-> 1, act |-> "ackoff"],
         [dt |-> 0, act |-> "stop"]>>

\* the delta-time sequence; each entry names the action list it carries
build_access_sequence(w, latency_cycles) ==
    <<[dt |-> 3, act |-> "start"],
      [dt |-> 12, act |-> "ca"],
      [dt |-> latency_cycles, act |-> "latency"]>>
    \o (IF w = 8
        THEN <<[dt |-> 2, act |-> "byte0"], [dt |-> 2, act |-> "byte1"],
               [dt |-> 2, act |-> "byte2"], [dt |-> 2, act |-> "byte3"]>>
        ELSE <<[dt |-> 2, act |-> "word0"], [dt |-> 2, act |-> "word1"]>>)
    \o <<[dt |-> 2, act |-> "end"],
         [dt |-> 1, act |-> "ack"],
         [dt |-> 1, act |-> "ackoff"],
         [dt |-> 0, act |-> "stop"]>>

RECURSIVE SumDt(_, _)
\* sum of the first n delta times
SumDt(seq, n) == IF n = 0 THEN 0 ELSE SumDt(seq, n - 1) + seq[n].dt

\* conversion to absolute times: t starts at 0 and grows by dt after each entry
absolute_times(seq) ==
    [i \in 1 .. Len(seq) |-> [t |-> SumDt(seq, i - 1), act |-> seq[i].act]]

\* the sequences are built once, at construction, for the instance's
\* (dw, latency)
dt_sequences ==
    [w \in PadWidths, lat \in Latencies |-> build_access_sequence(w, lat_cycles(lat))]

t_sequences ==
    [w \in PadWidths, lat \in Latencies |-> absolute_times(dt_sequences[w, lat])]

dt_sequence == dt_sequences[dw, latency]

t_sequence == t_sequences[dw, latency]

\* timeline(): lastevent = max(e[0] for e in events)
max_time(events) ==
    CHOOSE m \in {events[i].t : i \in DOMAIN events} :
        \A i \in DOMAIN events : events[i].t <= m

\* width of Signal(max=lastevent+1): the least n with 2^n > lastevent
bits_for(last) == CHOOSE n \in 1 .. 16 :
    Pow2(n) > last /\ \A m \in 1 .. (n - 1) : Pow2(m) <= last

lastevents == [w \in PadWidths, lat \in Latencies |-> max_time(t_sequences[w, lat])]

counter_bits == [w \in PadWidths, lat \in Latencies |-> bits_for(lastevents[w, lat])]

lastevent == lastevents[dw, latency]

\* sequence_start and the trigger of the timeline
sequence_start == IF clk_phase = 1 THEN 1 ELSE 0

\* faulty variant: the start is not gated by the phase
trigger_any_phase == cyc * stb

trigger == cyc * stb * sequence_start

\* timeline(): the condition of the event at absolute time t
get_cond(t) == IF t = 0 THEN trigger = 1 /\ counter = 0 ELSE counter = t

\* the action lists whose condition holds in the current cycle
Firing == {t_sequence[i].act : i \in {j \in DOMAIN t_sequence : get_cond(t_sequence[j].t)}}

\* faulty variant: a trigger restarts a timeline that is in progress
counterlogic_retrigger(cnt, trig, last, nbits) ==
    IF Pow2(nbits) # last + 1 /\ cnt = last THEN 0
    ELSE IF trig = 1 THEN 1
    ELSE IF cnt # 0 THEN (cnt + 1) % Pow2(nbits)
    ELSE cnt

\* faulty variant: the timeline is abandoned when the request is withdrawn
counterlogic_abort(cnt, trig, last, nbits) ==
    IF Pow2(nbits) # last + 1 /\ cnt = last THEN 0
    ELSE IF cnt # 0 THEN (IF cyc * stb = 1 THEN (cnt + 1) % Pow2(nbits) ELSE 0)
    ELSE IF trig = 1 THEN 1
    ELSE cnt

\* faulty variant: no reset at lastevent, the counter runs until it overflows
counterlogic_noreset(cnt, trig, last, nbits) ==
    IF cnt # 0 THEN (cnt + 1) % Pow2(nbits)
    ELSE IF trig = 1 THEN 1
    ELSE cnt

\* timeline(): counterlogic, with the reset inserted unless lastevent+1 is a
\* power of two
counterlogic(cnt, trig, last, nbits) ==
    IF Pow2(nbits) # last + 1 /\ cnt = last THEN 0
    ELSE IF cnt # 0 THEN (cnt + 1) % Pow2(nbits)
    ELSE IF trig = 1 THEN 1
    ELSE cnt

\* bit i of x replaced by b
WithBit(x, i, b) == x - Bit(x, i) * Pow2(i) + b * Pow2(i)

-----------------------------------------------------------------------------
(* The synchronous statements, one next-value operator per register.  The   *)
(* timeline's statements come after the clock and data-path statements, so  *)
(* where both assign a register the timeline's assignment wins.             *)

\* _setup_clock_generation: clk_phase.eq(clk_phase + 1), 2 bits
next_clk_phase == (clk_phase + 1) % 4

\* faulty variant: the clock is not gated by the chip select
next_clk_free ==
    IF clk_phase = 1 THEN 1
    ELSE IF clk_phase = 3 THEN 0
    ELSE clk

\* _setup_clock_generation: Case(clk_phase, {1: clk.eq(cs), 3: clk.eq(0)})
next_clk ==
    IF clk_phase = 1 THEN cs
    ELSE IF clk_phase = 3 THEN 0
    ELSE clk

next_cs(now) ==
    IF "end" \in now THEN 0
    ELSE IF "ca" \in now THEN 1
    ELSE cs

next_ca_active(now) ==
    IF "latency" \in now THEN 0
    ELSE IF "ca" \in now THEN 1
    ELSE ca_active

\* faulty variant: the data lines are driven in the data phase of a read too
next_dq_oe_driven(now) ==
    IF "end" \in now THEN 0
    ELSE IF "byte0" \in now \/ "word0" \in now THEN 1
    ELSE IF "latency" \in now THEN 0
    ELSE IF "ca" \in now THEN 1
    ELSE dq_oe

next_dq_oe(now) ==
    IF "end" \in now THEN 0
    ELSE IF "byte0" \in now \/ "word0" \in now THEN we
    ELSE IF "latency" \in now THEN 0
    ELSE IF "ca" \in now THEN 1
    ELSE dq_oe

\* faulty variant: the teardown leaves the mask output enable as it is
next_rwds_oe_kept(now) ==
    IF "byte0" \in now \/ "word0" \in now THEN we
    ELSE rwds_oe

next_rwds_oe(now) ==
    IF "end" \in now THEN 0
    ELSE IF "byte0" \in now \/ "word0" \in now THEN we
    ELSE rwds_oe

\* faulty variant: the byte selects are taken in ascending order
next_rwds_out_reversed(now) ==
    IF "byte0" \in now THEN WithBit(rwds_out, 0, Not(Bit(sel, 0)))
    ELSE IF "byte1" \in now THEN WithBit(rwds_out, 0, Not(Bit(sel, 1)))
    ELSE IF "byte2" \in now THEN WithBit(rwds_out, 0, Not(Bit(sel, 2)))
    ELSE IF "byte3" \in now THEN WithBit(rwds_out, 0, Not(Bit(sel, 3)))
    ELSE IF "word0" \in now
         THEN WithBit(WithBit(rwds_out, 1, Not(Bit(sel, 1))), 0, Not(Bit(sel, 0)))
    ELSE IF "word1" \in now
         THEN WithBit(WithBit(rwds_out, 1, Not(Bit(sel, 3))), 0, Not(Bit(sel, 2)))
    ELSE rwds_out

next_rwds_out(now) ==
    IF "byte0" \in now THEN WithBit(rwds_out, 0, Not(Bit(sel, 3)))
    ELSE IF "byte1" \in now THEN WithBit(rwds_out, 0, Not(Bit(sel, 2)))
    ELSE IF "byte2" \in now THEN WithBit(rwds_out, 0, Not(Bit(sel, 1)))
    ELSE IF "byte3" \in now THEN WithBit(rwds_out, 0, Not(Bit(sel, 0)))
    ELSE IF "word0" \in now
         THEN WithBit(WithBit(rwds_out, 1, Not(Bit(sel, 3))), 0, Not(Bit(sel, 2)))
    ELSE IF "word1" \in now
         THEN WithBit(WithBit(rwds_out, 1, Not(Bit(sel, 1))), 0, Not(Bit(sel, 0)))
    ELSE rwds_out

\* faulty variant: the acknowledge is never deasserted
next_ack_sticky(now) ==
    IF "ack" \in now THEN 1
    ELSE ack

next_ack(now) ==
    IF "ackoff" \in now THEN 0
    ELSE IF "ack" \in now THEN 1
    ELSE ack

next_sr(now) ==
    IF "byte0" \in now \/ "word0" \in now THEN LoadData(dat_w)
    ELSE IF "ca" \in now THEN LoadCA(ca)
    ELSE ShiftStatement(sr, dqi, dw, clk_phase, ca_active)

\* faulty variant: the timeline waits in the latency phase until the device
\* drives a one on the lowest data line
next_counter_handshake ==
    IF counter = 15 + lat_cycles(latency) /\ dqi % 2 = 0 THEN counter
    ELSE counterlogic(counter, trigger, lastevent, counter_bits[dw, latency])

next_counter == counterlogic(counter, trigger, lastevent, counter_bits[dw, latency])

-----------------------------------------------------------------------------------------------------------------------------------------------------
(* Observers: history kept beside the registers, read by the properties only *)

\* the timeline starts at the coming clock edge
Start == counter = 0 /\ trigger = 1

\* elapsed is 0 until the first start; it saturates one past the cycle in
\* which the counter is back at 0
ElapsedCap == lastevent + 2

\* waited saturates after one round of the phase counter
WaitedCap == 4

Observe ==
    /\ elapsed' = IF Start THEN 1
                  ELSE IF elapsed = 0 THEN 0
                  ELSE Min(elapsed + 1, ElapsedCap)
    /\ held' = ((Start \/ held) /\ cyc' = 1 /\ stb' = 1)
    /\ acks' = Min((IF Start THEN 0 ELSE acks) + ack', 2)
    /\ rd' = IF Start THEN Not(we) ELSE rd
    /\ waited' = IF counter = 0 /\ cyc = 1 /\ stb = 1 /\ ~Start
                 THEN Min(waited + 1, WaitedCap)
                 ELSE 0

\* the samples that fill the 32 bits of the read data
SamplesKept == 32 \div dw

\* at every edge that ends an odd-phase cycle, the value dqi takes from the
\* pins is noted with the counter value of that cycle
ObserveSamples ==
    samples' = IF clk_phase \in {1, 3}
               THEN SubSeq(<<[at |-> counter, pin |-> dqi']>> \o samples,
                           1, Min(Len(samples) + 1, SamplesKept))
               ELSE samples

-----------------------------------------------------------------------------
(* Environment: the Wishbone master and the device pins *)

Byte4(b3, b2, b1, b0) == <<b0, b1, b2, b3>>

\* values the device may put on dq.i
PinValues(w) == IF w = 8 THEN {165, 60} ELSE {42300, 23235}

\* a device that never changes its pins
QuietPins(w) == IF w = 8 THEN {165} ELSE {42300}

\* requests of the unconstrained bus
FreeRequests ==
    { [we |-> 0, adr |-> 5, dat_w |-> Byte4(17, 34, 51, 68), sel |-> 15],
      [we |-> 1, adr |-> 10, dat_w |-> Byte4(222, 173, 190, 239), sel |-> 10] }

\* the master presents (c, s, r) in the next cycle
Present(c, s, r) ==
    /\ cyc' = c
    /\ stb' = s
    /\ we' = r.we
    /\ adr' = r.adr
    /\ dat_w' = r.dat_w
    /\ sel' = r.sel

\* any values in any cycle
FreeBus(Reqs) == \E c \in {0, 1}, s \in {0, 1}, r \in Reqs : Present(c, s, r)

\* a Wishbone master: a pending request is held unchanged until it sees ack
WishboneBus(Reqs) ==
    IF cyc = 1 /\ stb = 1 /\ ack = 0
    THEN UNCHANGED <<cyc, stb, we, adr, dat_w, sel>>
    ELSE \E c \in {0, 1}, s \in {0, 1}, r \in Reqs : Present(c, s, r)

\* a Wishbone master that holds a pending request unchanged until it sees
\* ack and withdraws cyc and stb in the cycle after the ack cycle
WishboneMaster(Reqs) ==
    IF cyc = 1 /\ stb = 1 /\ ack = 0
    THEN UNCHANGED <<cyc, stb, we, adr, dat_w, sel>>
    ELSE IF cyc = 1 /\ stb = 1
    THEN \E r \in Reqs : Present(0, 0, r)
    ELSE \E c \in {0, 1}, s \in {0, 1}, r \in Reqs : Present(c, s, r)

-----------------------------------------------------------------------------
(* One clock edge *)

\* the registers of the instance, as a record
Registers ==
    [clk |-> clk, clk_phase |-> clk_phase, cs |-> cs, ca_active |-> ca_active,
     sr |-> sr, dqi |-> dqi, counter |-> counter, dq_oe |-> dq_oe,
     rwds_oe |-> rwds_oe, rwds_out |-> rwds_out, ack |-> ack]

\* the values the synchronous statements give the registers at the coming
\* edge, when dq.i carries pin
AfterEdge(pin) ==
    LET now == Firing IN
    [clk |-> next_clk, clk_phase |-> next_clk_phase, cs |-> next_cs(now),
     ca_active |-> next_ca_active(now), sr |-> next_sr(now), dqi |-> pin,
     counter |-> next_counter, dq_oe |-> next_dq_oe(now),
     rwds_oe |-> next_rwds_oe(now), rwds_out |-> next_rwds_out(now),
     ack |-> next_ack(now)]

\* the registers take the values of the record r
Load(r) ==
    /\ clk' = r.clk
    /\ clk_phase' = r.clk_phase
    /\ cs' = r.cs
    /\ ca_active' = r.ca_active
    /\ sr' = r.sr
    /\ dqi' = r.dqi
    /\ counter' = r.counter
    /\ dq_oe' = r.dq_oe
    /\ rwds_oe' = r.rwds_oe
    /\ rwds_out' = r.rwds_out
    /\ ack' = r.ack

Edge(Pins) ==
    /\ \E pin \in Pins : LET r == AfterEdge(pin) IN Load(r)
    /\ UNCHANGED <<dw, latency>>

\* a pin that is not driven
HighZ == -1

\* what the controller puts on the bus and on the pads in the current cycle,
\* the read data apart
ControlOutputs ==
    [ack |-> ack,
     cs_n |-> [i \in 0 .. 1 |-> cs_n(2, i)],
     clk |-> pads_clk,
     dq_oe |-> dq_oe,
     rwds_oe |-> rwds_oe,
     dq |-> IF dq_oe = 1 THEN dq_o ELSE HighZ,
     rwds |-> IF rwds_oe = 1 THEN rwds_o ELSE HighZ]

\* the record of an instance that has not been evaluated in this cycle
NotEvaluated == [ctl |-> <<>>, dat_r |-> <<>>]

\* the registers after reset and the first bus inputs, for a latency of Lats
Reset(Reqs, Lats) ==
    /\ latency \in Lats
    /\ clk = 0
    /\ clk_phase = 0
    /\ cs = 0
    /\ ca_active = 0
    /\ sr = <<0, 0, 0, 0, 0, 0>>
    /\ dqi = 0
    /\ counter = 0
    /\ dq_oe = 0
    /\ rwds_oe = 0
    /\ rwds_out = 0
    /\ ack = 0
    /\ cyc \in {0, 1}
    /\ stb \in {0, 1}
    /\ \E r \in Reqs :
         /\ we = r.we
         /\ adr = r.adr
         /\ dat_w = r.dat_w
         /\ sel = r.sel
    /\ elapsed = 0
    /\ held = FALSE
    /\ acks = 0
    /\ rd = 0
    /\ waited = 0
    /\ twin = [turn |-> 0, regs |-> Registers, out |-> NotEvaluated]
    /\ samples = <<>>

\* the state after reset of an instance built on pads of a supported width
InitWith(Reqs, Lats) ==
    /\ dw \in Widths
    /\ Reset(Reqs, Lats)

(* Spec: any bus activity in any cycle, a device that keeps its pins.      *)

Init == InitWith(FreeRequests, Latencies)

Tick == Edge(QuietPins(dw)) /\ FreeBus(FreeRequests) /\ Observe /\ UNCHANGED <<twin, samples>>

Next == Tick

Spec == Init /\ [][Next]_vars

(* SpecAny: any bus activity and either of two pin values in any cycle.    *)

\* a read and a write that differ in direction and address only
AnyRequests ==
    { [we |-> 0, adr |-> 5, dat_w |-> Byte4(17, 34, 51, 68), sel |-> 15],
      [we |-> 1, adr |-> 10, dat_w |-> Byte4(17, 34, 51, 68), sel |-> 15] }

InitAny == InitWith(AnyRequests, 1 .. MaxLatency)

TickAny == Edge(PinValues(dw)) /\ FreeBus(AnyRequests) /\ Observe /\ UNCHANGED <<twin, samples>>

NextAny == TickAny

SpecAny == InitAny /\ [][NextAny]_vars

(* SpecDevice: a Wishbone master, either of two pin values in any cycle.   *)

InitDevice == InitWith(FreeRequests, Latencies)

TickDevice ==
    /\ Edge(PinValues(dw))
    /\ WishboneBus(FreeRequests)
    /\ Observe
    /\ ObserveSamples
    /\ UNCHANGED twin

NextDevice == TickDevice

SpecDevice == InitDevice /\ [][NextDevice]_vars

(* SpecBus: a Wishbone master that sweeps the addresses, a device that     *)
(* keeps its pins.                                                         *)

MaxAdr == 8

\* low addresses, and addresses with the upper bits set
Addresses ==
    (0 .. MaxAdr) \cup {Pow2(AdrBits) - 1, Pow2(AdrBits) - 1 - MaxAdr, Pow2(AdrBits - 1) + 6}

BusRequests ==
    {[we |-> w_e, adr |-> a, dat_w |-> Byte4(17, 34, 51, 68), sel |-> 15] :
        w_e \in {0, 1}, a \in Addresses}

InitBus == InitWith(BusRequests, {DefaultLatency})

TickBus == Edge(QuietPins(dw)) /\ WishboneBus(BusRequests) /\ Observe /\ UNCHANGED <<twin, samples>>

NextBus == TickBus

SpecBus == InitBus /\ [][NextBus]_vars

(* SpecMask: a Wishbone master that sweeps the byte selects of reads and   *)
(* writes, a device that keeps its pins.                                   *)

MaskRequests ==
    {[we |-> w_e, adr |-> 5, dat_w |-> Byte4(222, 173, 190, 239), sel |-> s] :
        w_e \in {0, 1}, s \in 0 .. 15}

InitMask == InitWith(MaskRequests, {1, DefaultLatency})

TickMask == Edge(QuietPins(dw)) /\ WishboneBus(MaskRequests) /\ Observe /\ UNCHANGED <<twin, samples>>

NextMask == TickMask

SpecMask == InitMask /\ [][NextMask]_vars

(* SpecBuild: the constructor is handed pads of any width; an instance  *)
(* exists, and its clock runs, only if the constructor got past the width  *)
(* check.  Any bus activity, a device that keeps its pins.                 *)

InitBuild ==
    /\ dw \in PadWidths
    /\ Reset(FreeRequests, {DefaultLatency})

TickBuild == supported(dw) /\ Edge(QuietPins(dw)) /\ FreeBus(FreeRequests) /\ Observe /\ UNCHANGED <<twin, samples>>

NextBuild == TickBuild

SpecBuild == InitBuild /\ [][NextBuild]_vars

(* SpecMaster: a Wishbone master that withdraws the request after the ack, *)
(* a device that keeps its pins.                                           *)

InitMaster == InitWith(FreeRequests, Latencies)

TickMaster ==
    /\ Edge(QuietPins(dw))
    /\ WishboneMaster(FreeRequests)
    /\ Observe
    /\ UNCHANGED <<twin, samples>>

NextMaster == TickMaster

SpecMaster == InitMaster /\ [][NextMaster]_vars

(* SpecTwin: two instances of the controller on one bus, each with its own *)
(* device.  The registers of the instance being evaluated are in the        *)
(* variables and those of the other are in twin.regs; the two are evaluated *)
(* one after the other on the bus values of the same cycle, and the first   *)
(* leaves its outputs of that cycle in twin.out.  The device of the first   *)
(* puts either pin value on dq.i in any cycle, the device of the second     *)
(* keeps its pins: every run is set against the run with the quiet device,  *)
(* so any two runs on the same bus activity are set against each other.     *)
(* Any bus activity.                                                         *)

InitTwin == InitWith(AnyRequests, Latencies)

\* the first instance sees its edge; the variables pass to the second
TickFirst ==
    /\ twin.turn = 0
    /\ \E pin \in PinValues(dw) :
         twin' = [turn |-> 1, regs |-> AfterEdge(pin),
                  out |-> [ctl |-> ControlOutputs, dat_r |-> dat_r]]
    /\ Load(twin.regs)
    /\ UNCHANGED <<dw, latency, cyc, stb, we, adr, dat_w, sel>>
    /\ UNCHANGED <<elapsed, held, acks, rd, waited, samples>>

\* the second instance sees its edge; the variables pass back to the first
\* and the bus moves on to the next cycle
TickSecond ==
    /\ twin.turn = 1
    /\ \E pin \in QuietPins(dw) :
         twin' = [turn |-> 0, regs |-> AfterEdge(pin), out |-> NotEvaluated]
    /\ Load(twin.regs)
    /\ FreeBus(AnyRequests)
    /\ UNCHANGED <<dw, latency>>
    /\ UNCHANGED <<elapsed, held, acks, rd, waited, samples>>

NextTwin == TickFirst \/ TickSecond

SpecTwin == InitTwin /\ [][NextTwin]_vars

-----------------------------------------------------------------------------
(* Properties *)

\* cycles of the data phase
DataCycles == IF dw = 8 THEN 8 ELSE 4

\* 3 + 12 + (L*8 - 4): the cycle count at which the data phase begins
DataStart == 3 + 12 + ((latency * 8) - 4)

\* 3 + 12 + (L*8 - 4) + D + 2 + 2
SpecPeriod == 3 + 12 + ((latency * 8) - 4) + DataCycles + 2 + 2

\* C1, as stated: for data width 8 and latency 6, ack is high exactly in the
\* cycle that comes 71 cycles after the cycle in which the request was seen
\* pending at phase 1 by the idle controller.
C1_AckAfter71 ==
    (dw = 8 /\ latency = 6) => ((ack = 1) <=> (elapsed = 71))

\* C1, as amended: for data width 8 and latency 6, ack is high exactly in the
\* cycle that comes 70 cycles after the cycle in which the request was seen
\* pending at phase 1 by the idle controller, for reads and writes alike.
C1_AckAfter70 ==
    (dw = 8 /\ latency = 6) => ((ack = 1) <=> (elapsed = 70))

C1_Witness ==
    dw = 8 /\ latency = 6 /\ ack = 1 /\ elapsed = 70 /\ rd = 0

\* C2: every timeline run gives exactly one cycle with ack high: never two
\* ack cycles in one run, one ack cycle once the run is over, and ack is
\* high only inside a run that an accepted request started.
C2_OneAckPerRequest ==
    /\ acks <= 1
    /\ (ack = 1 => (elapsed > 0 /\ counter # 0 /\ acks = 1))
    /\ (elapsed > SpecPeriod => (acks = 1 /\ ack = 0))
    /\ (elapsed = 0 => (acks = 0 /\ ack = 0))

C2_Witness ==
    elapsed > SpecPeriod /\ acks = 1 /\ ack = 0 /\ counter = 0

\* C3, as stated: after a read, from the ack cycle on and as long as no new
\* request is accepted, the read data does not change.
C3_StableUntilNextRequest ==
    [][(rd = 1 /\ elapsed >= SpecPeriod - 1 /\ ~Start) => dat_r' = dat_r]_vars

\* C3, as amended: after a read, the read data has in the cycle after the
\* ack cycle the value it has in the ack cycle: the ack cycle is at phase 3,
\* where the register does not shift.  At the clock edge that ends the cycle
\* after the ack cycle, which is at phase 0, the register shifts in the
\* staged pin sample.
C3_StableOverAck ==
    /\ [][(rd = 1 /\ ack = 1) => (clk_phase = 3 /\ dat_r' = dat_r)]_vars
    /\ [][(rd = 1 /\ elapsed = SpecPeriod)
            => (clk_phase = 0 /\ ack = 0 /\ sr' = ShiftData(sr, dqi, dw))]_vars

C3_Witness ==
    rd = 1 /\ we = 0 /\ ack = 1 /\ elapsed = SpecPeriod - 1 /\ dat_r # <<0, 0, 0, 0>>

\* C4: a trigger that arrives while a timeline is in progress is ignored:
\* with the request pending the counter still steps to its successor; with
\* the request asserted in every cycle since the start the timeline position
\* equals the number of cycles since the start; no timeline starts before
\* the previous one is over, and ack is high only at one fixed position of
\* a run, so two ack pulses are at least one transaction period apart.
C4_TriggerIgnored ==
    /\ [][(counter # 0 /\ cyc = 1 /\ stb = 1)
            => counter' = (IF counter = SpecPeriod THEN 0 ELSE counter + 1)]_vars
    /\ []((held /\ elapsed >= 1 /\ elapsed <= SpecPeriod) => counter = elapsed)
    /\ [](Start => (elapsed = 0 \/ elapsed >= SpecPeriod + 1))
    /\ [](ack = 1 => elapsed = SpecPeriod - 1)

\* the request, asserted in every cycle, triggers again in mid-transaction
C4_Witness ==
    held /\ counter > 4 /\ trigger = 1 /\ cs = 1

\* C5: a timeline starts only at the clock edge of a cycle in which the
\* phase counter reads 1 and cyc and stb are high; an idle controller that
\* sees them high at phase 1 starts; at any other phase it stays idle, so a
\* pending request waits at most the three cycles of phases 2, 3 and 0.
C5_PhaseAlignment ==
    /\ [][(counter = 0 /\ counter' # 0) => (clk_phase = 1 /\ cyc = 1 /\ stb = 1)]_vars
    /\ [][(counter = 0 /\ clk_phase = 1 /\ cyc = 1 /\ stb = 1) => counter' = 1]_vars
    /\ [][(counter = 0 /\ clk_phase # 1) => counter' = 0]_vars
    /\ [][clk_phase' = (clk_phase + 1) % 4]_vars
    /\ [](waited <= 3)

\* a request pending since phase 2 is accepted at phase 1
C5_Witness ==
    waited = 3 /\ counter = 0 /\ clk_phase = 1 /\ cyc = 1 /\ stb = 1

\* C6: a started timeline runs to completion whatever the bus and the device
\* do: k cycles after the start the timeline is at position k, for every k
\* up to its last position; ack is high exactly at the position two before
\* the last; one cycle after the last position the controller is idle.
C6_RunsToCompletion ==
    /\ ((elapsed >= 1 /\ elapsed <= SpecPeriod) => counter = elapsed)
    /\ (elapsed > SpecPeriod => counter = 0)
    /\ ((elapsed = SpecPeriod - 1) <=> (ack = 1))
    /\ (elapsed = SpecPeriod + 1 => (cs = 0 /\ dq_oe = 0 /\ rwds_oe = 0))

\* the request was withdrawn and its fields changed during the run, and the
\* run has reached its ack
C6_Witness ==
    ack = 1 /\ ~held /\ cyc = 0 /\ stb = 0 /\ rd = we

\* C7, as stated: with the request pending in every cycle, a timeline starts
\* exactly 3+12+(L*8-4)+D+2+2 cycles after the previous start.
C7_StartsSpecPeriodApart ==
    (Start /\ held) => elapsed = SpecPeriod

\* C7, as amended: with the request pending in every cycle, a timeline (and
\* so its ack pulse) comes exactly 3+12+(L*8-4)+D+2+2+1 cycles after the
\* previous one: 72 cycles for width 8 and latency 6, 68 for width 16 and
\* latency 6.
C7_StartsOnePastSpecPeriod ==
    /\ ((Start /\ held) => elapsed = SpecPeriod + 1)
    /\ ((held /\ elapsed = SpecPeriod + 1) => Start)
    /\ (held => elapsed <= SpecPeriod + 1)
    /\ ((Start /\ held /\ latency = 6) => elapsed = (IF dw = 8 THEN 72 ELSE 68))
    /\ (ack = 1 => elapsed = SpecPeriod - 1)

C7_Witness ==
    Start /\ held /\ latency = 6 /\ dw = 8 /\ elapsed = 72 /\ acks = 1

RECURSIVE Field(_, _, _)
\* the number held by bits hi:lo of a word given bit by bit
Field(word, lo, hi) == IF hi < lo THEN 0 ELSE word[lo] + 2 * Field(word, lo + 1, hi)

\* C8: in every cycle the command-address word of the current address and
\* write-enable has bit47 = NOT we, bit46 = 0, bit45 = 1, bits15:3 = 0 and,
\* for width 8, bits44:16 = A>>2, bits2:1 = A & 3, bit0 = 0, for width 16,
\* bits44:16 = A>>3, bits2:1 = (A>>1) & 3, bit0 = A & 1; decoding by this
\* layout gives back the address and the direction; the words of a read and
\* a write of one address differ in bit 47 only; and it is this word that
\* the register holds after the command-address load.
C8_CommandAddressLayout ==
    LET word == ca
        upper == Field(word, 16, 44)
        lower == Field(word, 1, 2)
    IN  /\ word[47] = Not(we)
        /\ word[46] = 0
        /\ word[45] = 1
        /\ Field(word, 3, 15) = 0
        /\ IF dw = 8
           THEN /\ upper = adr \div 4
                /\ lower = adr % 4
                /\ word[0] = 0
                /\ (4 * upper) + lower = adr
           ELSE /\ upper = adr \div 8
                /\ lower = (adr \div 2) % 4
                /\ word[0] = adr % 2
                /\ (8 * upper) + (2 * lower) + word[0] = adr
        /\ 1 - word[47] = we
        /\ {i \in 0 .. 47 : CommandAddress(adr, 0, dw)[i] # CommandAddress(adr, 1, dw)[i]}
             = {47}
        /\ (counter = 4 => \A k \in 0 .. 5 : sr[k + 1] = Field(word, 8 * k, (8 * k) + 7))

\* the word of a 16-bit write to the highest address, just loaded
C8_Witness ==
    counter = 4 /\ dw = 16 /\ we = 1 /\ adr = Pow2(AdrBits) - 1 /\ sr[6] = 39

\* C9: while the mask is driven, the mask pins carry in the two cycles of
\* sub-step k the complement of the select bit of the lane of that sub-step:
\* for width 8 NOT sel[3-k] on the one mask line, k = 0..3; for width 16 NOT
\* sel[3-2k] on line 1 and NOT sel[2-2k] on line 0, k = 0..1.  The mask
\* output-enable is high in the cycles of the data phase of a write and in
\* no other cycle.
C9_MaskInversion ==
    /\ \A k \in 0 .. 3 :
         (dw = 8 /\ rwds_oe = 1 /\ counter \in {DataStart + (2 * k) + 1, DataStart + (2 * k) + 2})
            => rwds_o = 1 - Bit(sel, 3 - k)
    /\ \A k \in 0 .. 1 :
         (dw = 16 /\ rwds_oe = 1 /\ counter \in {DataStart + (2 * k) + 1, DataStart + (2 * k) + 2})
            => (/\ Bit(rwds_o, 1) = 1 - Bit(sel, 3 - (2 * k))
                /\ Bit(rwds_o, 0) = 1 - Bit(sel, 2 - (2 * k)))
    /\ (counter \in (DataStart + 1) .. (DataStart + DataCycles) => rwds_oe = we)
    /\ (counter \notin (DataStart + 1) .. (DataStart + DataCycles) => rwds_oe = 0)

\* byte-select 0b1010, width 8, second sub-step: lane 2 is masked
C9_Witness ==
    dw = 8 /\ we = 1 /\ sel = 10 /\ rwds_oe = 1 /\ counter = DataStart + 3 /\ rwds_o = 1

\* C10: the data sub-steps fire at the counts DataStart, DataStart+2, ... and
\* the teardown step at DataStart+8 for width 8 (four sub-steps) and at
\* DataStart+4 for width 16 (two sub-steps), for every latency; so
\* chip-select falls, and for a write the mask output-enable rises and
\* falls, at these counts, and the mask changes only at a sub-step.
C10_DataPhaseLength ==
    /\ [](\A k \in 0 .. 3 :
            <<"byte0", "byte1", "byte2", "byte3">>[k + 1] \in Firing
                => (dw = 8 /\ counter = DataStart + 2 * k))
    /\ [](\A k \in 0 .. 1 :
            <<"word0", "word1">>[k + 1] \in Firing
                => (dw = 16 /\ counter = DataStart + 2 * k))
    /\ []((counter = DataStart + DataCycles) <=> ("end" \in Firing))
    /\ [](counter = DataStart => (Firing = IF dw = 8 THEN {"byte0"} ELSE {"word0"}))
    /\ [][(cs = 1 /\ cs' = 0) => counter = DataStart + DataCycles]_vars
    /\ [][(rwds_oe = 0 /\ rwds_oe' = 1) => counter = DataStart]_vars
    /\ [][(rwds_oe = 1 /\ rwds_oe' = 0) => counter = DataStart + DataCycles]_vars
    /\ [][(rwds_out' # rwds_out)
            => \E k \in 0 .. ((DataCycles \div 2) - 1) : counter = DataStart + 2 * k]_vars

\* the teardown step of a 16-bit write
C10_Witness ==
    "end" \in Firing /\ dw = 16 /\ rwds_oe = 1 /\ counter = DataStart + 4

C13_ClockUpdates ==
    [][/\ clk_phase = 1 => clk' = cs
       /\ clk_phase = 3 => clk' = 0
       /\ clk_phase \in {0, 2} => clk' = clk
       /\ (clk = 1) <=> (cs = 1 /\ clk_phase \in {2, 3})]_vars

\* the second high cycle of a clock pulse inside a transaction
C13_Witness ==
    clk = 1 /\ cs = 1 /\ clk_phase = 3 /\ counter > DataStart

\* C14: on pads with two chip-select lines the second line is high in every
\* reachable state, idle and in every cycle of every read and write; the
\* first line is the inverse of the chip-select register, so it is the only
\* line that goes active (low).
C14_SecondChipSelectInactive ==
    \A n \in CsLines :
        /\ cs_n(n, 0) = Not(cs)
        /\ n >= 2 => cs_n(n, 1) = 1

\* the first line is active inside a write, the second is not
C14_Witness ==
    cs = 1 /\ rd = 0 /\ counter > DataStart /\ cs_n(2, 0) = 0 /\ cs_n(2, 1) = 1

C17_ShiftsOnEvenPhases ==
    [][/\ sr' # sr => clk_phase \in {0, 2}
       /\ counter \in {3, 15 + ((latency * 8) - 4)} => clk_phase = 0
       /\ (clk_phase \in {0, 2} /\ counter \notin {3, 15 + ((latency * 8) - 4)}) =>
            IF dw = 16 /\ ca_active = 0
            THEN sr' = <<dqi % 256, dqi \div 256, sr[1], sr[2], sr[3], sr[4]>>
            ELSE sr' = <<dqi % 256, sr[1], sr[2], sr[3], sr[4], sr[5]>>]_vars

\* a sample of 60 has been shifted in while the pins moved on to 165
C17_Witness ==
    dw = 8 /\ elapsed > 0 /\ clk_phase = 3 /\ sr[1] = 60 /\ sr[2] = 165 /\ dqi = 165

C19_PayloadZeroExtended ==
    (counter = DataStart + 1 /\ rd = 0 /\ we = 1) =>
        /\ \A k \in 1 .. 4 : sr[k] = dat_w[k]
        /\ sr[5] = 0 /\ sr[6] = 0

\* C19, as amended: in the first cycle of the data phase of a write the
\* 48-bit register holds the 32-bit write word in bits 47:16 and zeros in
\* bits 15:0, so that the most significant byte of the write word is the
\* first on the data pins.
C19_PayloadInUpperBits ==
    (counter = DataStart + 1 /\ rd = 0 /\ we = 1) =>
        /\ sr[1] = 0 /\ sr[2] = 0
        /\ \A k \in 1 .. 4 : sr[k + 2] = dat_w[k]
        /\ dq_oe = 1
        /\ dq_o = (IF dw = 8 THEN dat_w[4] ELSE dat_w[3] + 256 * dat_w[4])

\* the write word 0xDEADBEEF just loaded
C19_Witness ==
    /\ counter = DataStart + 1 /\ rd = 0 /\ we = 1
    /\ dat_w = <<239, 190, 173, 222>>
    /\ sr = <<0, 0, 239, 190, 173, 222>>

\* C20: chip select, the data output enable and the mask output enable are
\* low from the cycle after the teardown step, which is 2 cycles before the
\* cycle in which ack is high; so in every state with ack high all three
\* are low.  They stay low through the rest of the run, through idle and
\* through the first cycles of the next run, until its command-address
\* phase (counter 4).  Chip select is still high in the cycle of the
\* teardown step.
C20_TeardownBeforeAck ==
    /\ ack = 1 => (cs = 0 /\ dq_oe = 0 /\ rwds_oe = 0)
    /\ ack = 1 => counter = DataStart + DataCycles + 3
    /\ (counter > DataStart + DataCycles \/ counter \in 0 .. 3) =>
            (cs = 0 /\ dq_oe = 0 /\ rwds_oe = 0)
    /\ counter = DataStart + DataCycles => cs = 1

\* the ack cycle of a write
C20_Witness ==
    ack = 1 /\ rd = 0 /\ we = 1 /\ held /\ cs = 0 /\ dq_oe = 0 /\ rwds_oe = 0

\* C15: widths 8 and 16 pass the width check of the constructor and no other
\* width does; for pads of any other width the constructor stops at the
\* check, before the clock generator, the data path and the sequencer are
\* set up, so nothing ever runs: the phase counter and the timeline never
\* leave 0, chip select is never asserted and no ack is given, whatever the
\* bus presents.
C15_UnsupportedWidthRejected ==
    /\ supported(8) /\ supported(16)
    /\ dw \notin {8, 16} =>
         /\ ~supported(dw)
         /\ clk_phase = 0 /\ clk = 0 /\ counter = 0
         /\ cs = 0 /\ ack = 0 /\ dq_oe = 0 /\ rwds_oe = 0
         /\ sr = <<0, 0, 0, 0, 0, 0>>
         /\ elapsed = 0 /\ acks = 0

\* a write request presented where the pads were 32 bits wide
C15_Witness ==
    dw = 32 /\ cyc = 1 /\ stb = 1 /\ we = 1 /\ cs = 0 /\ ack = 0

\* C11: two instances that see the same bus activity, one with a device
\* that puts either of two values on dq.i in any cycle and one with a device
\* that keeps its pins, have in every cycle the same ack, chip selects,
\* external clock, data and mask output enables, and the same values on the
\* data and mask pins they drive; the read data is not compared.
C11_ControlIgnoresDevice ==
    twin.turn = 1 => ControlOutputs = twin.out.ctl

\* the ack cycle of a read in which the two instances return different data
C11_Witness ==
    /\ twin.turn = 1
    /\ ack = 1 /\ twin.out.ctl.ack = 1
    /\ we = 0
    /\ ControlOutputs = twin.out.ctl
    /\ dat_r # twin.out.dat_r

\* the read data as the samples noted by the observer give it: the newest
\* sample in the least significant position
ReadDataOfSamples ==
    IF dw = 8
    THEN [k \in 1 .. 4 |-> samples[k].pin]
    ELSE <<samples[1].pin % 256, samples[1].pin \div 256,
           samples[2].pin % 256, samples[2].pin \div 256>>

\* C21, as stated: in the ack cycle of a read the read data is made of the
\* last four byte samples (width 8) or the last two 16-bit samples (width
\* 16) of dq.i taken at odd phases, the earliest in the most significant
\* position, and every one of them was taken in a cycle of the data phase
\* (counter from DataStart, the step that loads the register, to DataStart
\* + D, the teardown step).
C21_SamplesOfDataPhase ==
    (ack = 1 /\ rd = 1) =>
        /\ Len(samples) = SamplesKept
        /\ dat_r = ReadDataOfSamples
        /\ \A k \in 1 .. SamplesKept :
              samples[k].at \in DataStart .. (DataStart + DataCycles)

\* C21, as amended: in the ack cycle of a read the read data is made of the
\* last four byte samples (width 8) or the last two 16-bit samples (width
\* 16) of dq.i taken at odd phases, the earliest in the most significant
\* position.  All of them were taken after the register was loaded at the
\* start of the data phase, one every second cycle, in the cycles counter =
\* DataStart + 3, + 5, + 7 and + 9 (width 8) or DataStart + 3 and + 5 (width
\* 16); the last one is taken in the cycle after the teardown step, with
\* chip select already low.
C21_SamplesAfterLoad ==
    (ack = 1 /\ rd = 1) =>
        /\ Len(samples) = SamplesKept
        /\ dat_r = ReadDataOfSamples
        /\ \A k \in 1 .. SamplesKept :
              samples[k].at = DataStart + DataCycles + 1 - 2 * (k - 1)

\* a read of width 8 that returns four samples that are not all alike
C21_Witness ==
    /\ ack = 1 /\ rd = 1 /\ dw = 8 /\ latency = 6
    /\ dat_r = <<165, 60, 60, 165>>
    /\ Len(samples) = 4
    /\ samples[1] = [at |-> 68, pin |-> 165]
    /\ samples[4] = [at |-> 62, pin |-> 165]

\* C22: in a write each data sub-step lasts 2 cycles, in both of which the
\* data pins and the mask pins are driven and carry the same byte lanes.
\* Width 8: in sub-step k = 0 .. 3 (counter = DataStart + 1 + 2k and + 2 +
\* 2k) the data pins carry byte 3 - k of the write word and the mask pin
\* carries NOT sel[3 - k].  Width 16: in sub-step 0 the data pins carry bits
\* 31:16 and the mask pins NOT sel[3] and NOT sel[2]; in sub-step 1 bits
\* 15:0 and NOT sel[1] and NOT sel[0].  Data and mask so change at the same
\* clock edges.
C22_DataAndMaskLanes ==
    we = 1 =>
        /\ dw = 8 =>
             \A k \in 0 .. 3 :
                counter \in {DataStart + 1 + 2 * k, DataStart + 2 + 2 * k} =>
                    /\ dq_oe = 1 /\ rwds_oe = 1
                    /\ dq_o = dat_w[4 - k]
                    /\ rwds_o = Not(Bit(sel, 3 - k))
        /\ dw = 16 =>
             \A k \in 0 .. 1 :
                counter \in {DataStart + 1 + 2 * k, DataStart + 2 + 2 * k} =>
                    /\ dq_oe = 1 /\ rwds_oe = 1
                    /\ dq_o = dat_w[3 - 2 * k] + 256 * dat_w[4 - 2 * k]
                    /\ rwds_o = 2 * Not(Bit(sel, 3 - 2 * k)) + Not(Bit(sel, 2 - 2 * k))

\* the second cycle of sub-step 2 of an 8-bit write of 0xDEADBEEF with byte
\* select 1101: byte 1 is masked
C22_Witness ==
    /\ dw = 8 /\ we = 1 /\ sel = 13
    /\ counter = DataStart + 6
    /\ dq_oe = 1 /\ dq_o = 190
    /\ rwds_oe = 1 /\ rwds_o = 1

\* C23: for both widths and every latency L >= 1, the external clock changes
\* only at an edge that enters phase 2 or phase 0, and chip select, the data
\* output enable, the value at the data outputs, the mask output enable and
\* the value at the mask outputs change only at an edge that enters phase 1
\* or phase 3; so none of them changes at an edge at which the clock
\* changes, and chip select rises and falls only while the clock is low and
\* stays low.
C23_QuadratureWithClock ==
    [][/\ pads_clk' # pads_clk => clk_phase' \in {2, 0}
       /\ (\/ cs' # cs
           \/ dq_oe' # dq_oe
           \/ dq_o' # dq_o
           \/ rwds_oe' # rwds_oe
           \/ rwds_o' # rwds_o)
          => (clk_phase' \in {1, 3} /\ pads_clk' = pads_clk)
       /\ cs' # cs => (pads_clk = 0 /\ pads_clk' = 0)]_vars

\* the data pins have just changed from byte 3 to byte 2 of the write word
\* 0x11223344, in the second high cycle of the clock
C23_Witness ==
    /\ dw = 8 /\ cs = 1 /\ rwds_oe = 1 /\ dq_oe = 1 /\ dq_o = 34
    /\ counter = DataStart + 3
    /\ clk_phase = 3 /\ pads_clk = 1

\* C24: with a master that holds cyc, stb and the request until it sees ack
\* and withdraws cyc and stb in the cycle after, every request gets one
\* timeline, one chip-select window and one ack:
\*  - a pending request is accepted at the first phase 1 and is pending
\*    through the whole run up to the ack cycle;
\*  - a timeline starts only for a request that was asserted after the
\*    previous one was withdrawn (cyc and stb have not been high ever since
\*    the previous start), so also a request asserted right after the ack is
\*    a transaction of its own;
\*  - the controller is busy in the ack cycle and in the cycle after it;
\*  - in a run chip select rises once (CA step) and falls once (teardown
\*    step), and ack is high in one cycle.
C24_OneTransactionPerRequest ==
    [][/\ (counter = 0 /\ clk_phase = 1 /\ cyc = 1 /\ stb = 1) => counter' = 1
       /\ waited < WaitedCap
       /\ (counter # 0 /\ elapsed < SpecPeriod) => (held /\ cyc = 1 /\ stb = 1)
       /\ Start => ~held
       /\ ack = 1 => (counter # 0 /\ counter' # 0 /\ ack' = 0)
       /\ (cs = 0 /\ cs' = 1) => counter = 3
       /\ (cs = 1 /\ cs' = 0) => counter = DataStart + DataCycles
       /\ acks <= 1
       /\ elapsed > SpecPeriod - 1 => acks = 1]_vars

\* a second request, asserted two cycles after the ack of the first, is
\* about to be accepted
C24_Witness ==
    /\ Start
    /\ elapsed = SpecPeriod + 1
    /\ acks = 1 /\ ~held
    /\ cs = 0 /\ ack = 0

====
